---- MODULE Spec2Model ----
(***************************************************************************)
(* Pixel buffer decoding of dwv: the PixelBufferDecoder facade, its        *)
(* synchronous delegate (SynchPixelBufferDecoder) and its worker-pool      *)
(* delegate (AsynchPixelBufferDecoder on top of a ThreadPool).             *)
(*                                                                         *)
(* One decoder instance is modelled from the moment its constructor has    *)
(* returned.  The caller may attach handlers to the facade, call decode()  *)
(* and call abort(); in worker-pool mode the running tasks end in any      *)
(* order.  `calls` records every decode()/abort() call with its outcome,   *)
(* `events` records every callback invocation made by the delegate,        *)
(* together with the function that was stored in the invoked callback      *)
(* property at that moment.                                                *)
(***************************************************************************)
EXTENDS Integers, Sequences, FiniteSets, TLC

\* ------------------------------------------------------------------ bounds
\* largest number of decode()/abort() calls made on the instance
MaxCalls == 3
\* largest anticipated number of data (numberOfData) given to the constructor
MaxData == 2
\* largest capacity of the small pools in which tasks queue
MaxSlots == 2

\* largest number of files in the list given to FilesLoader.load()
MaxFiles == 2
\* largest number of load()/abort() calls made on a FilesLoader and of file
\* readers it creates, taken together
MaxLoaderWork == 4

\* ------------------------------------------------------------ input domains
\* algorithm names: the four of the dispatch chain and one that is not in it
Algos == {"jpeg-lossless", "jpeg-baseline", "jpeg2000", "rle", "jpeg-ls"}
\* the algorithms the host registers a worker script for, when it does
ScriptAlgos == {"jpeg2000", "rle"}
\* values of info.itemNumber
ItemNumbers == {0, 1}
\* the six callback properties of a decoder
Kinds == {"decodestart", "decodeditem", "decoded", "decodeend", "error", "abort"}
\* functions stored in a callback property of the facade: the default no-op
\* method of PixelBufferDecoder, or a handler of the caller
Handlers == {"default", "h"}
\* the default no-op method of the class that owns the callback property, for
\* the properties of the delegate and of the pool
OwnDefault == "own"
\* index field of an event object that has none
NoIndex == -1

\* size of the thread pool of the asynchronous decoder
PoolSize == 10

VARIABLES
  hasJpegBaselineDecoder,   \* typeof JpegImage !== 'undefined'
  hasJpegLosslessDecoder,   \* jpeg and jpeg.lossless are defined
  hasJpeg2000Decoder,       \* typeof JpxImage !== 'undefined'
  decoderScripts,           \* algorithm names that have a worker script
  algoName,                 \* PixelBufferDecoder.#algoName
  numberOfData,             \* PixelBufferDecoder.#numberOfData
  pixelDecoder,             \* class of PixelBufferDecoder.#pixelDecoder
  areCallbacksSet,          \* PixelBufferDecoder.#areCallbacksSet
  handlers,                 \* the facade's on<kind> properties
  decoderHandlers,          \* the delegate's on<kind> properties
  decodeCount,              \* SynchPixelBufferDecoder.#decodeCount
  asynchAreCallbacksSet,    \* AsynchPixelBufferDecoder.#areCallbacksSet
  poolHandlers,             \* the pool's callback properties
  poolSize,                 \* capacity the pool was constructed with
  poolRunning,              \* tasks running in a pool slot
  poolQueue,                \* tasks waiting for a slot
  poolSubmitted,            \* number of tasks given to the pool
  poolCompleted,            \* number of tasks that have ended or failed
  poolFailed,               \* a task of the batch has failed
  poolEnded,                \* the pool has emitted its end event
  poolAborted,              \* the pool has been aborted
  calls,                    \* history of the decode()/abort() calls
  events,                   \* history of the callback invocations
  inputData,                \* FilesLoader.#inputData (the load() call that gave it)
  readers,                  \* FilesLoader.#readers (the stored file readers)
  runningLoader,            \* FilesLoader.#runningLoader (the load() call that stored it)
  nLoad,                    \* FilesLoader.#nLoad
  nLoadend,                 \* FilesLoader.#nLoadend
  fileReaders,              \* every FileReader created, with the work it started
  loaderCalls,              \* history of the load()/abort() calls of the FilesLoader
  loaderLoads,              \* the load(buffer, origin, index) calls made on loaders
  loaderEvents,             \* history of onloadstart, onload and onloadend
  tags,                     \* the Tag constructor calls made, with their Tags
  compared,                 \* the last call of tagCompareFunction and of equals
  frame                     \* the pixel buffer and meta the caller decodes next

codecVars == <<hasJpegBaselineDecoder, hasJpegLosslessDecoder,
               hasJpeg2000Decoder, decoderScripts>>
ctorVars == <<algoName, numberOfData, pixelDecoder>>
poolVars == <<asynchAreCallbacksSet, poolHandlers, poolSize, poolRunning,
              poolQueue, poolSubmitted, poolCompleted, poolFailed, poolEnded,
              poolAborted>>
loaderVars == <<inputData, readers, runningLoader, nLoad, nLoadend,
                fileReaders, loaderCalls, loaderLoads, loaderEvents>>
\* what the decoder's operations leave alone
tagVars == <<tags, compared>>
otherVars == <<loaderVars, tagVars, frame>>
vars == <<codecVars, ctorVars, areCallbacksSet, handlers, decoderHandlers,
          decodeCount, poolVars, calls, events,
         loaderVars, tagVars, frame>>

\* the callback properties of a new facade: its default no-op methods
DefaultHandlers == [k \in Kinds |-> "default"]
\* the callback properties of a new delegate or pool: its own no-op methods
OwnHandlers == [k \in Kinds |-> OwnDefault]

\* ------------------------------------------------------------------ events
\* one callback invocation: the property `kind` of the emitter is called,
\* `on` being the emitter's callback properties; `call` is the decode() or
\* abort() call the event answers
Event(kind, index, data, call, on) ==
  [kind |-> kind, index |-> index, data |-> data, call |-> call,
   handler |-> on[kind]]

\* ----------------------------------------------- SynchPixelBufferDecoder

\* a guard chain that forgets the JPEG 2000 check
CodecMissingNoJpx(algo) ==
  \/ algo = "jpeg-lossless" /\ ~hasJpegLosslessDecoder
  \/ algo = "jpeg-baseline" /\ ~hasJpegBaselineDecoder

\* the decoder the algorithm needs is not provided
CodecMissing(algo) ==
  \/ algo = "jpeg-lossless" /\ ~hasJpegLosslessDecoder
  \/ algo = "jpeg-baseline" /\ ~hasJpegBaselineDecoder
  \/ algo = "jpeg2000" /\ ~hasJpeg2000Decoder

\* what the if/else chain of decode() leaves in decodedBuffer, or the error it
\* throws; codecOk: the codec engine decodes this buffer without throwing
DecodeOutcome(algo, codecOk) ==
  IF CodecMissing(algo) THEN "MissingCodec"
  ELSE IF algo \in {"jpeg-lossless", "jpeg-baseline", "jpeg2000", "rle"}
       THEN (IF codecOk THEN "pixels" ELSE "CodecError")
       ELSE "null"

\* no tag has been compared yet
NoComparison == [made |-> FALSE]

\* a frame whose content is left open: whether the codec accepts it is an input
\* of the decode() call
AnyFrame ==
  [buffer |-> "any", bitsAllocated |-> 8, isSigned |-> FALSE, sliceSize |-> 4,
   samplesPerPixel |-> 1, planarConfiguration |-> 0]

\* a selection that ignores isSigned
TypedArrayUnsigned(bitsAllocated, isSigned) ==
  IF bitsAllocated = 8 THEN "Uint8Array"
  ELSE IF bitsAllocated = 16 THEN "Uint16Array" ELSE "null"

\* the typed array selected by bitsAllocated and isSigned; none for another
\* width
TypedArray(bitsAllocated, isSigned) ==
  IF bitsAllocated = 8
  THEN (IF isSigned THEN "Int8Array" ELSE "Uint8Array")
  ELSE IF bitsAllocated = 16
       THEN (IF isSigned THEN "Int16Array" ELSE "Uint16Array")
       ELSE "null"

\* RleDecoder.decode: the array of the decoded pixels, a function of its six
\* arguments
RleDecode(buffer, bitsAllocated, isSigned, sliceSize, samplesPerPixel, planarConfiguration) ==
  [type |-> TypedArray(bitsAllocated, isSigned),
   pixels |-> << "rle", buffer, sliceSize, samplesPerPixel,
                 planarConfiguration >>]

\* a decoder whose output depends on the number of decodes it has run
DecodedBufferCounted(algo, f) ==
  [type |-> "Uint8Array", pixels |-> << "rle", f.buffer, decodeCount >>]

\* decodedBuffer at the end of the if/else chain, for a frame the codec accepts
DecodedBuffer(algo, f) ==
  IF algo = "jpeg-lossless"
  THEN IF TypedArray(f.bitsAllocated, f.isSigned) = "null"
       THEN [type |-> "null", pixels |-> << >>]
       ELSE [type |-> TypedArray(f.bitsAllocated, f.isSigned),
             pixels |-> << "jpeg-lossless", f.buffer, f.bitsAllocated \div 8 >>]
  ELSE IF algo \in {"jpeg-baseline", "jpeg2000"}
       THEN [type |-> "codec", pixels |-> << algo, f.buffer >>]
       ELSE IF algo = "rle"
            THEN RleDecode(f.buffer, f.bitsAllocated, f.isSigned, f.sliceSize,
                           f.samplesPerPixel, f.planarConfiguration)
            ELSE [type |-> "null", pixels |-> << >>]

\* the outcome is an exception leaving decode()
IsThrow(outcome) == outcome \in {"MissingCodec", "CodecError"}

\* a per-item event numbered by the order of the calls
ItemEventRenumbered(item, data, call, on) ==
  Event("decodeditem", call - 1, data, call, on)

\* this.ondecodeditem({data: [decodedBuffer], index: info.itemNumber})
ItemEvent(item, data, call, on) ==
  Event("decodeditem", item, data, call, on)

\* decode end?
DecodeEndReached(count) == count = numberOfData

\* the two closing callbacks in the wrong order
CompletionEventsSwapped(call, on) ==
  << Event("decodeend", NoIndex, "none", call, on),
     Event("decoded", NoIndex, "none", call, on) >>

\* a batch that announces its start when it closes
CompletionEventsWithStart(call, on) ==
  << Event("decodestart", NoIndex, "none", call, on),
     Event("decoded", NoIndex, "none", call, on),
     Event("decodeend", NoIndex, "none", call, on) >>

\* this.ondecoded({}); this.ondecodeend({});
CompletionEvents(call, on) ==
  << Event("decoded", NoIndex, "none", call, on),
     Event("decodeend", NoIndex, "none", call, on) >>

\* SynchPixelBufferDecoder.decode, `on` being its callback properties
SynchDecode(item, codecOk, on) ==
  LET count == decodeCount + 1
      call == Len(calls) + 1
      outcome == DecodeOutcome(algoName, codecOk)
  IN /\ decodeCount' = count
     /\ IF IsThrow(outcome)
        THEN /\ events' = events
             /\ calls' = Append(calls, [op |-> "decode", item |-> item,
                                        result |-> outcome, facade |-> handlers, frame |-> frame,
                                        by |-> "Synch", scripts |-> decoderScripts,
                                        queued |-> FALSE])
        ELSE /\ events' = events
                    \o << ItemEvent(item, DecodedBuffer(algoName, frame), call, on) >>
                    \o (IF DecodeEndReached(count)
                        THEN CompletionEvents(call, on) ELSE << >>)
             /\ calls' = Append(calls, [op |-> "decode", item |-> item,
                                        result |-> "returned", facade |-> handlers, frame |-> frame,
                                        by |-> "Synch", scripts |-> decoderScripts,
                                        queued |-> FALSE])

\* an abort that reports itself on the error callback
AbortEventsAsError(call, on) ==
  << Event("error", NoIndex, "none", call, on),
     Event("decodeend", NoIndex, "none", call, on) >>

\* the two abort callbacks in the wrong order
AbortEventsSwapped(call, on) ==
  << Event("decodeend", NoIndex, "none", call, on),
     Event("abort", NoIndex, "none", call, on) >>

\* this.onabort({}); this.ondecodeend({});
AbortEvents(call, on) ==
  << Event("abort", NoIndex, "none", call, on),
     Event("decodeend", NoIndex, "none", call, on) >>

\* SynchPixelBufferDecoder.abort
SynchAbort(on) ==
  /\ events' = events \o AbortEvents(Len(calls) + 1, on)
  /\ calls' = Append(calls, [op |-> "abort", item |-> NoIndex,
                             result |-> "returned", facade |-> handlers, frame |-> frame,
                             by |-> "Synch", scripts |-> decoderScripts,
                             queued |-> FALSE])
  /\ UNCHANGED decodeCount

\* ------------------------------------------------------------- ThreadPool
\* The scheduler of the worker-pool mode.  A task carries the info object of
\* its decode() call: the sequence index and the expected total of the batch.

\* a worker task: the info object given to decode() and the call that made it
WorkerTask(item, total, call) == [item |-> item, total |-> total, call |-> call]

\* the events that close a batch: all work done when every task of the batch
\* has delivered its item, then the end event
PoolDoneEvents(failed, call, on) ==
  (IF failed THEN << >> ELSE << Event("decoded", NoIndex, "none", call, on) >>)
  \o << Event("decodeend", NoIndex, "none", call, on) >>

\* a pool that starts a task although no slot is free
PoolHasFreeSlotAlways == TRUE

\* a slot is free
PoolHasFreeSlot == Cardinality(poolRunning) < poolSize

\* ThreadPool.addWorkerTask: start event on the first task, then run the task
\* in a free slot or queue it; an aborted pool dispatches nothing
PoolAddWorkerTask(task, on) ==
  /\ poolSubmitted' = poolSubmitted + 1
  /\ events' = events \o (IF poolSubmitted = 0 /\ ~poolAborted
                          THEN << Event("decodestart", NoIndex, "none", task.call, on) >>
                          ELSE << >>)
  /\ IF poolAborted
     THEN UNCHANGED <<poolRunning, poolQueue>>
     ELSE IF PoolHasFreeSlot
          THEN poolRunning' = poolRunning \cup {task} /\ UNCHANGED poolQueue
          ELSE poolQueue' = Append(poolQueue, task) /\ UNCHANGED poolRunning
  /\ UNCHANGED <<poolSize, poolCompleted, poolFailed, poolEnded, poolAborted>>

\* a pool that gives the freed slot to the task queued last
PoolNextQueuedLast(queue) == Len(queue)

\* the position in the queue of the task that takes a freed slot: the first
PoolNextQueued(queue) == 1

\* a pool that leaves the queued tasks waiting when a slot is freed
PoolRecycleForgets(task) ==
  /\ poolRunning' = poolRunning \ {task}
  /\ poolQueue' = poolQueue

\* the slot of the ended task takes the next queued task, or becomes free
PoolRecycle(task) ==
  IF poolQueue # << >>
  THEN LET n == PoolNextQueued(poolQueue)
       IN /\ poolRunning' = (poolRunning \ {task}) \cup {poolQueue[n]}
          /\ poolQueue' = [i \in 1..(Len(poolQueue) - 1) |->
                             IF i < n THEN poolQueue[i] ELSE poolQueue[i + 1]]
  ELSE /\ poolRunning' = poolRunning \ {task}
       /\ poolQueue' = poolQueue

\* a pool that closes the batch at its first completed task
PoolBatchCompletesAtOnce(task) == ~poolEnded

\* with `task` gone every task of the batch has completed, for the first time
PoolBatchCompletes(task) ==
  ~poolEnded /\ poolCompleted + 1 = task.total

\* a pool that emits its abort event once per cancelled task
PoolAbortEventsPerTask(call, on) ==
  [i \in 1..(Cardinality(poolRunning) + Len(poolQueue)) |->
     Event("abort", NoIndex, "none", call, on)]
  \o << Event("decodeend", NoIndex, "none", call, on) >>

\* the events of an aborted pool: one abort event, then the end event
PoolAbortEvents(call, on) ==
  << Event("abort", NoIndex, "none", call, on),
     Event("decodeend", NoIndex, "none", call, on) >>

\* ThreadPool.abort: cancel the running and the queued tasks, one abort event
\* for the pool, then the end event; nothing is emitted by a pool that has
\* already ended
PoolAbort(call, on) ==
  /\ poolAborted' = TRUE
  /\ poolEnded' = TRUE
  /\ poolRunning' = {}
  /\ poolQueue' = << >>
  /\ events' = events \o (IF poolEnded THEN << >> ELSE PoolAbortEvents(call, on))
  /\ UNCHANGED <<poolSize, poolSubmitted, poolCompleted, poolFailed>>

\* ---------------------------------------------- AsynchPixelBufferDecoder

\* AsynchPixelBufferDecoder.decode, `on` being its callback properties
AsynchDecode(item, on) ==
  LET pon == IF asynchAreCallbacksSet THEN poolHandlers ELSE on
      call == Len(calls) + 1
  IN /\ asynchAreCallbacksSet' = TRUE
     /\ poolHandlers' = pon
     /\ PoolAddWorkerTask(WorkerTask(item, numberOfData, call), pon)
     /\ calls' = Append(calls, [op |-> "decode", item |-> item,
                                result |-> "returned", facade |-> handlers, frame |-> frame,
                                by |-> "Asynch", scripts |-> decoderScripts,
                                queued |-> ~poolAborted /\ ~PoolHasFreeSlot])

\* AsynchPixelBufferDecoder.abort
AsynchAbort ==
  /\ PoolAbort(Len(calls) + 1, poolHandlers)
  /\ calls' = Append(calls, [op |-> "abort", item |-> NoIndex,
                             result |-> "returned", facade |-> handlers, frame |-> frame,
                             by |-> "Asynch", scripts |-> decoderScripts,
                             queued |-> FALSE])
  /\ UNCHANGED <<asynchAreCallbacksSet, poolHandlers>>

\* ----------------------------------------------------- PixelBufferDecoder

\* the fields of a FilesLoader after construction
NewFilesLoader ==
  /\ inputData = 0
  /\ readers = << >>
  /\ runningLoader = 0
  /\ nLoad = 0
  /\ nLoadend = 0
  /\ fileReaders = << >>
  /\ loaderCalls = << >>
  /\ loaderLoads = {}
  /\ loaderEvents = << >>

\* the constructor's choice of the delegate
ChooseDecoder(algo, scripts) ==
  IF algo \in scripts THEN "Asynch" ELSE "Synch"

\* the hosts considered: one that registers worker scripts loads the codec
\* engines in the workers and not in the page; one that registers none loads
\* any of the three engines in the page
PageCodec(scripts) == IF scripts = {} THEN BOOLEAN ELSE {FALSE}

Init ==
  /\ decoderScripts \in {{}, ScriptAlgos}
  /\ hasJpegBaselineDecoder \in PageCodec(decoderScripts)
  /\ hasJpegLosslessDecoder \in PageCodec(decoderScripts)
  /\ hasJpeg2000Decoder \in PageCodec(decoderScripts)
  /\ algoName \in Algos
  /\ numberOfData \in 1..MaxData
  /\ pixelDecoder = ChooseDecoder(algoName, decoderScripts)
  /\ areCallbacksSet = FALSE
  /\ handlers = DefaultHandlers
  /\ decoderHandlers = OwnHandlers
  /\ decodeCount = 0
  /\ asynchAreCallbacksSet = FALSE
  /\ poolHandlers = OwnHandlers
  /\ poolSize = PoolSize
  /\ poolRunning = {}
  /\ poolQueue = << >>
  /\ poolSubmitted = 0
  /\ poolCompleted = 0
  /\ poolFailed = FALSE
  /\ poolEnded = FALSE
  /\ poolAborted = FALSE
  /\ calls = << >>
  /\ events = << >>
  /\ NewFilesLoader
  /\ tags = {}
  /\ compared = NoComparison
  /\ frame = AnyFrame

\* a facade that looks the delegate up in the registry at every call
PixelDecoderOfRegistry == ChooseDecoder(algoName, decoderScripts)

\* the delegate decode() and abort() hand over to: the one of the constructor
PixelDecoder == pixelDecoder

\* the caller assigns its handler to the six callback properties of the facade
AttachHandlers(h) ==
  /\ handlers # [k \in Kinds |-> h]
  /\ handlers' = [k \in Kinds |-> h]
  /\ UNCHANGED <<codecVars, ctorVars, areCallbacksSet, decoderHandlers,
                 decodeCount, poolVars, calls, events>>
  /\ UNCHANGED otherVars

\* a facade that hands its handlers to the delegate at every decode()
WiredHandlersEveryCall == handlers

\* the delegate's callbacks once decode() has passed its wiring block: the
\* facade's handlers at the first call, the ones wired then afterwards
WiredHandlers == IF areCallbacksSet THEN decoderHandlers ELSE handlers

\* PixelBufferDecoder.decode
Decode(item, codecOk) ==
  /\ Len(calls) < MaxCalls
  /\ LET on == WiredHandlers
     IN /\ areCallbacksSet' = TRUE
        /\ decoderHandlers' = on
        /\ IF PixelDecoder = "Synch"
           THEN SynchDecode(item, codecOk, on) /\ UNCHANGED poolVars
           ELSE AsynchDecode(item, on) /\ UNCHANGED decodeCount
  /\ UNCHANGED <<codecVars, ctorVars, handlers>>
  /\ UNCHANGED otherVars

\* PixelBufferDecoder.abort
Abort ==
  /\ Len(calls) < MaxCalls
  /\ IF PixelDecoder = "Synch"
     THEN SynchAbort(decoderHandlers) /\ UNCHANGED poolVars
     ELSE AsynchAbort /\ UNCHANGED decodeCount
  /\ UNCHANGED <<codecVars, ctorVars, areCallbacksSet, handlers, decoderHandlers>>
  /\ UNCHANGED otherVars

\* a running task ends with its decoded data: per-item event with the task's
\* index, the slot is recycled, and the batch is closed if this was its last
\* task
TaskEnd(task) ==
  /\ task \in poolRunning
  /\ PoolRecycle(task)
  /\ poolCompleted' = poolCompleted + 1
  /\ poolEnded' = (poolEnded \/ PoolBatchCompletes(task))
  /\ events' = events
        \o << Event("decodeditem", task.item, "pixels", task.call, poolHandlers) >>
        \o (IF PoolBatchCompletes(task)
            THEN PoolDoneEvents(poolFailed, task.call, poolHandlers) ELSE << >>)
  /\ UNCHANGED <<codecVars, ctorVars, areCallbacksSet, handlers, decoderHandlers,
                 decodeCount, asynchAreCallbacksSet, poolHandlers, poolSize,
                 poolSubmitted, poolFailed, poolAborted, calls>>
  /\ UNCHANGED otherVars

\* a running task fails: error event for that task, the slot is recycled, and
\* the batch is closed if this was its last task
TaskError(task) ==
  /\ task \in poolRunning
  /\ PoolRecycle(task)
  /\ poolCompleted' = poolCompleted + 1
  /\ poolFailed' = TRUE
  /\ poolEnded' = (poolEnded \/ PoolBatchCompletes(task))
  /\ events' = events
        \o << Event("error", task.item, "none", task.call, poolHandlers) >>
        \o (IF PoolBatchCompletes(task)
            THEN PoolDoneEvents(TRUE, task.call, poolHandlers) ELSE << >>)
  /\ UNCHANGED <<codecVars, ctorVars, areCallbacksSet, handlers, decoderHandlers,
                 decodeCount, asynchAreCallbacksSet, poolHandlers, poolSize,
                 poolSubmitted, poolAborted, calls>>
  /\ UNCHANGED otherVars

\* the host adds or removes the entries of the registry of worker scripts (an
\* exported object)
SetDecoderScripts(scripts) ==
  /\ decoderScripts # scripts
  /\ decoderScripts' = scripts
  /\ UNCHANGED <<hasJpegBaselineDecoder, hasJpegLosslessDecoder,
                 hasJpeg2000Decoder, ctorVars, areCallbacksSet, handlers,
                 decoderHandlers, decodeCount, poolVars, calls, events>>
  /\ UNCHANGED otherVars

Next ==
  \/ \E h \in Handlers \ {"default"} : AttachHandlers(h)
  \/ \E item \in ItemNumbers, codecOk \in BOOLEAN : Decode(item, codecOk)
  \/ Abort
  \/ \E task \in poolRunning : TaskEnd(task)
  \/ \E task \in poolRunning : TaskError(task)

Spec == Init /\ [][Next]_vars

\* ------------------------------------------------------- worker-pool mode
\* A decoder in worker-pool mode over a pool of capacity n.  The decoder's own
\* pool has capacity PoolSize; the small capacities make tasks queue within a
\* batch of MaxCalls tasks.

PoolInit ==
  /\ decoderScripts = ScriptAlgos
  /\ hasJpegBaselineDecoder = FALSE
  /\ hasJpegLosslessDecoder = FALSE
  /\ hasJpeg2000Decoder = FALSE
  /\ algoName = "rle"
  /\ numberOfData \in 1..MaxCalls
  /\ pixelDecoder = ChooseDecoder(algoName, decoderScripts)
  /\ areCallbacksSet = FALSE
  /\ handlers = DefaultHandlers
  /\ decoderHandlers = OwnHandlers
  /\ decodeCount = 0
  /\ asynchAreCallbacksSet = FALSE
  /\ poolHandlers = OwnHandlers
  /\ poolSize \in (1..MaxSlots) \cup {PoolSize}
  /\ poolRunning = {}
  /\ poolQueue = << >>
  /\ poolSubmitted = 0
  /\ poolCompleted = 0
  /\ poolFailed = FALSE
  /\ poolEnded = FALSE
  /\ poolAborted = FALSE
  /\ calls = << >>
  /\ events = << >>
  /\ NewFilesLoader
  /\ tags = {}
  /\ compared = NoComparison
  /\ frame = AnyFrame

PoolNext ==
  \/ \E h \in Handlers \ {"default"} : AttachHandlers(h)
  \/ \E item \in ItemNumbers : Decode(item, TRUE)
  \/ Abort
  \/ \E task \in poolRunning : TaskEnd(task)
  \/ \E task \in poolRunning : TaskError(task)

PoolSpec == PoolInit /\ [][PoolNext]_vars

\* the tasks a batch can hold
PoolTasks == [item : ItemNumbers, total : 1..MaxCalls, call : 1..MaxCalls]

\* a batch that is not aborted and whose tasks all end
PoolFairNext ==
  \/ \E item \in ItemNumbers : Decode(item, TRUE)
  \/ \E task \in poolRunning : TaskEnd(task)

\* every running task eventually ends
PoolFairSpec ==
  /\ PoolInit
  /\ [][PoolFairNext]_vars
  /\ \A task \in PoolTasks : WF_vars(TaskEnd(task))

\* ------------------------------------------------------- frames decoded
\* A synchronous rle decoder whose caller picks the buffer and the meta of each
\* frame; a buffer is accepted by the codec or not, whenever it is decoded.

\* the pixel buffers: a well-formed one and a malformed one
Buffers == {"b1", "malformed"}
\* the codec decodes the buffer without an exception
Decodable(buffer) == buffer # "malformed"
\* the frames the caller picks from
Frames ==
  [buffer : Buffers, bitsAllocated : {8, 16}, isSigned : BOOLEAN,
   sliceSize : {4}, samplesPerPixel : {1}, planarConfiguration : {0}]

\* the caller takes another frame to decode
SetFrame(f) ==
  /\ frame # f
  /\ frame' = f
  /\ UNCHANGED <<codecVars, ctorVars, areCallbacksSet, handlers,
                 decoderHandlers, decodeCount, poolVars, calls, events,
                 loaderVars, tagVars>>

FramesInit ==
  /\ Init
  /\ algoName = "rle"
  /\ numberOfData = MaxData
  /\ decoderScripts = {}
  /\ ~hasJpegBaselineDecoder /\ ~hasJpegLosslessDecoder /\ ~hasJpeg2000Decoder

FramesNext ==
  \/ \E f \in Frames : SetFrame(f)
  \/ Decode(0, Decodable(frame.buffer))
  \/ Abort

FramesSpec == FramesInit /\ [][FramesNext]_vars

\* a synchronous jpeg-lossless decoder on a page that has loaded the lossless
\* codec
LosslessInit ==
  /\ Init
  /\ algoName = "jpeg-lossless"
  /\ numberOfData = MaxData
  /\ decoderScripts = {}
  /\ hasJpegLosslessDecoder
  /\ ~hasJpegBaselineDecoder /\ ~hasJpeg2000Decoder

LosslessSpec == LosslessInit /\ [][FramesNext]_vars

\* -------------------------------------------------------------------- Tag
\* The values given to the Tag constructor are JavaScript values: undefined,
\* strings (sequences of characters) and arrays (of one-character strings).

MaxTags == 3

Undefined == [type |-> "undefined", chars |-> << >>]
Str(chars) == [type |-> "string", chars |-> chars]
Arr(items) == [type |-> "array", chars |-> items]

\* !v is false
Truthy(v) ==
  CASE v.type = "undefined" -> FALSE
    [] v.type = "string" -> v.chars # << >>
    [] v.type = "array" -> TRUE

\* v.length, of a value that has one
Length(v) == Len(v.chars)

\* the checks of the constructor in their order: the message of the Error
\* thrown, or "none"
TagError(group, element) ==
  IF ~Truthy(group) \/ group.type = "undefined"
  THEN "Cannot create tag with no group."
  ELSE IF Length(group) # 4
  THEN "Cannot create tag with badly sized group."
  ELSE IF ~Truthy(element) \/ element.type = "undefined"
  THEN "Cannot create tag with no element."
  ELSE IF Length(element) # 4
  THEN "Cannot create tag with badly sized element."
  ELSE "none"

\* the private fields of a constructed Tag
TagFields(group, element) == [group |-> group, element |-> element]

\* the constructor calls that returned a Tag
Created == {t \in tags : t.error = "none"}

GetGroup(t) == t.fields.group
GetElement(t) == t.fields.element

\* rhs is a Tag here; === on two strings compares their characters, on two
\* objects their identity (the arrays of equal content are one object here)
TagEquals(t, rhs) ==
  /\ GetGroup(t) = GetGroup(rhs)
  /\ GetElement(t) = GetElement(rhs)

\* numbers: NaN, or an integer
NaN == [nan |-> TRUE, n |-> 0]
Num(n) == [nan |-> FALSE, n |-> n]
Minus(x, y) == IF x.nan \/ y.nan THEN NaN ELSE Num(x.n - y.n)
Negate(x) == IF x.nan THEN NaN ELSE Num(0 - x.n)
\* x === y on numbers: NaN is equal to nothing
StrictEquals(x, y) == ~x.nan /\ ~y.nan /\ x.n = y.n
Negative(x) == ~x.nan /\ x.n < 0
Positive(x) == ~x.nan /\ x.n > 0

HexLower == << "0", "1", "2", "3", "4", "5", "6", "7", "8", "9",
               "a", "b", "c", "d", "e", "f" >>
HexUpper == << "0", "1", "2", "3", "4", "5", "6", "7", "8", "9",
               "A", "B", "C", "D", "E", "F" >>
IsHexDigit(c) == \E i \in 1..16 : HexLower[i] = c \/ HexUpper[i] = c
HexDigit(c) == (CHOOSE i \in 1..16 : HexLower[i] = c \/ HexUpper[i] = c) - 1

\* String(v): a string is itself, an array is its items joined by commas
RECURSIVE Join(_)
Join(items) ==
  IF Len(items) <= 1 THEN items
  ELSE << items[1], "," >> \o Join(Tail(items))
StringOf(v) == IF v.type = "array" THEN Join(v.chars) ELSE v.chars

RECURSIVE TrimStart(_)
TrimStart(chars) ==
  IF chars # << >> /\ chars[1] = " " THEN TrimStart(Tail(chars)) ELSE chars

\* the characters after an optional sign
Unsigned(chars) ==
  IF chars # << >> /\ chars[1] \in {"+", "-"} THEN Tail(chars) ELSE chars
\* the characters after an optional 0x or 0X
Unprefixed(chars) ==
  IF Len(chars) >= 2 /\ chars[1] = "0" /\ chars[2] \in {"x", "X"}
  THEN Tail(Tail(chars)) ELSE chars

\* the number of leading hexadecimal digits
RECURSIVE DigitsLen(_)
DigitsLen(chars) ==
  IF chars # << >> /\ IsHexDigit(chars[1]) THEN 1 + DigitsLen(Tail(chars))
  ELSE 0

\* the value of a sequence of hexadecimal digits
RECURSIVE HexValue(_)
HexValue(digits) ==
  IF digits = << >> THEN 0
  ELSE 16 * HexValue(SubSeq(digits, 1, Len(digits) - 1))
       + HexDigit(digits[Len(digits)])

\* parseInt(v, 16): leading white space, a sign and a 0x prefix are skipped,
\* the longest run of hexadecimal digits is read, of either case; NaN if there
\* is none
ParseInt(v) ==
  LET trimmed == TrimStart(StringOf(v))
      body == Unprefixed(Unsigned(trimmed))
      digits == SubSeq(body, 1, DigitsLen(body))
      value == HexValue(digits)
  IN IF digits = << >> THEN NaN
     ELSE IF trimmed # << >> /\ trimmed[1] = "-" THEN Num(0 - value)
     ELSE Num(value)

TagCompareFunction(a, b) ==
  LET res == Minus(ParseInt(GetGroup(a)), ParseInt(GetGroup(b)))
  IN IF StrictEquals(res, Num(0))
     THEN Minus(ParseInt(GetElement(a)), ParseInt(GetElement(b)))
     ELSE res

\* the groups and elements the callers construct Tags with
GroupValues ==
  { Undefined, Str(<< >>), Str(<< "0", "0", "8" >>),
    Arr(<< "0", "0", "1", "0" >>),
    Str(<< "0", "0", "0", "8" >>),
    Str(<< "7", "f", "e", "0" >>), Str(<< "7", "F", "E", "0" >>),
    Str(<< "z", "z", "z", "z" >>) }
ElementValues ==
  { Undefined, Str(<< "0", "0", "1", "0", "0" >>),
    Str(<< "0", "0", "1", "0" >>), Str(<< "0", "1", "0", "0" >>) }

\* the state the Tag operations leave alone
notTagVars == <<codecVars, ctorVars, areCallbacksSet, handlers,
                decoderHandlers, decodeCount, poolVars, calls, events,
                loaderVars, frame>>

\* new Tag(group, element)
NewTag(group, element) ==
  /\ Cardinality(tags) < MaxTags
  /\ \A t \in tags : t.group # group \/ t.element # element
  /\ tags' = tags \cup
       { [group |-> group, element |-> element,
          error |-> TagError(group, element),
          fields |-> IF TagError(group, element) = "none"
                     THEN TagFields(group, element)
                     ELSE TagFields(Undefined, Undefined)] }
  /\ UNCHANGED <<compared, notTagVars>>

\* tagCompareFunction(a, b) and a.equals(b) of two Tags
TagCompare(a, b) ==
  /\ a \in Created /\ b \in Created
  /\ compared' = [made |-> TRUE, a |-> a, b |-> b,
                  res |-> TagCompareFunction(a, b),
                  equals |-> TagEquals(a, b)]
  /\ compared' # compared
  /\ UNCHANGED <<tags, notTagVars>>

TagInit ==
  /\ Init
  /\ algoName = "rle"
  /\ numberOfData = 1
  /\ decoderScripts = {}
  /\ ~hasJpegBaselineDecoder /\ ~hasJpegLosslessDecoder /\ ~hasJpeg2000Decoder

TagNext ==
  \/ \E group \in GroupValues, element \in ElementValues : NewTag(group, element)
  \/ \E a, b \in tags : TagCompare(a, b)

TagSpec == TagInit /\ [][TagNext]_vars

\* ------------------------------------------------------------ FilesLoader
\* One FilesLoader from its construction on.  load() and abort() are called in
\* any order; the file readers and the loaders report back in any order.  A
\* load() call is named by its position in `loaderCalls`; #inputData and
\* #runningLoader hold the call that stored them, 0 for null.

\* the files the caller picks from
Files == {"a.dcm", "b.dcm", "c.zip"}
\* the loader classes of loaderList, in list order
LoaderList == << "json", "dicom" >>
\* loader.canLoadFile(file)
CanLoadFile(loader, file) ==
  \/ loader = "dicom" /\ file \in {"a.dcm", "b.dcm"}
  \/ loader = "json" /\ file \in {}
\* event.target.result of the reader of a file
FileResult(file) == << "content of", file >>
\* the lists of files given to load(): no file twice in a list
DataLists ==
  {d \in UNION {[1..n -> Files] : n \in 0..MaxFiles} :
     \A i, j \in 1..Len(d) : d[i] = d[j] => i = j}

\* the arguments load() is called with: undefined, or a list of files
LoadInputs ==
  {[given |-> "undefined", list |-> << >>]}
    \cup {[given |-> "list", list |-> d] : d \in DataLists}

\* a load() that only returns early for undefined
NoDataUndefinedOnly(input) == input.given = "undefined"

\* typeof data === 'undefined' || data.length === 0
NoData(input) == input.given = "undefined" \/ Len(input.list) = 0

\* file reader states (FileReader.readyState)
EMPTY == 0
LOADING == 1
DONE == 2

\* the positions in the loader list of the loaders that accept the file
AcceptingLoaders(file) ==
  {l \in 1..Len(LoaderList) : CanLoadFile(LoaderList[l], file)}
\* the first loader of the list that accepts the file
FirstLoader(file) ==
  LoaderList[CHOOSE l \in AcceptingLoaders(file) :
               \A k \in AcceptingLoaders(file) : l <= k]

\* a load handler that gives every file the index of the first
GetLoadHandlerFirstIndex(loader, dataElement, i) ==
  [loader |-> loader, origin |-> dataElement, index |-> 0]

\* getLoadHandler: the closure over the loader, the file and its index
GetLoadHandler(loader, dataElement, i) ==
  [loader |-> loader, origin |-> dataElement, index |-> i]

\* the file reader created for data[i], after its read has been started;
\* `call` is the load() call that created it, whose loader instance its load
\* handler holds, `index` its position in the list, `file` the file it reads,
\* `step` is how far the reader is ("reading", "ending" once its load, error or
\* abort event is fired, "ended" once its end event is), `job` how far the
\* loader is with the file ("none", "loading", "loaded" or "failed" once its
\* load or error event is fired, "ended" once its end event is, or "dropped"
\* by an abort of the loader)
NewReader(call, data, i) ==
  [call |-> call, index |-> i, file |-> data[i + 1], readyState |-> LOADING,
   onload |-> GetLoadHandler(call, data[i + 1], i),
   step |-> "reading", job |-> "none"]

\* a load() that checks every file before it starts the first reader
FilesStartedAllOrNone(loader, data) ==
  IF \A i \in 1..Len(data) : CanLoadFile(loader, data[i]) THEN Len(data) ELSE 0

\* the number of files load() starts a reader for: all, or those before the
\* first file the chosen loader cannot load
FilesStarted(loader, data) ==
  LET bad == {i \in 1..Len(data) : ~CanLoadFile(loader, data[i])}
  IN IF bad = {} THEN Len(data)
     ELSE (CHOOSE i \in bad : \A k \in bad : i <= k) - 1

\* a load() that keeps the counters of the previous batch
StoredCountKept(count) == count

\* #storeInputData: the value a counter is reset to
StoredCount(count) == 0

\* the data of the current batch
InputData == loaderCalls[inputData].data

\* a loader that calls onload at each load event
LoadReachedAlways(count) == TRUE

\* #addLoad: all is loaded
LoadReached(count) == count = Len(InputData)

\* a loader that waits for one end event per file only
LoadendThresholdSingle(n) == n

\* #addLoadend: the number of end events of a batch of n files
LoadendThreshold(n) == 2 * n

\* #addLoad called once
AddLoad ==
  /\ nLoad' = nLoad + 1
  /\ loaderEvents' = loaderEvents \o
       (IF LoadReached(nLoad + 1)
        THEN << [kind |-> "load", source |-> inputData] >> ELSE << >>)

\* #addLoadend called k times in a row
AddLoadend(k) ==
  /\ nLoadend' = nLoadend + k
  /\ loaderEvents' = loaderEvents \o
       [j \in 1..Cardinality({j \in 1..k :
                   nLoadend + j = LoadendThreshold(Len(InputData))}) |->
          [kind |-> "loadend", source |-> inputData]]

\* the decoder is not part of the loading
DecoderVars == <<codecVars, ctorVars, areCallbacksSet, handlers,
                 decoderHandlers, decodeCount, poolVars, calls, events, tagVars,
                 frame>>

\* callbacks of an earlier load() are still to come: a reader is reading or
\* has its end event pending, or a loader is busy or has its end event pending
Outstanding ==
  \E r \in 1..Len(fileReaders) :
    \/ fileReaders[r].step \in {"reading", "ending"}
    \/ fileReaders[r].job \in {"loading", "loaded", "failed"}

\* a load() that looks for the loader before it announces the start
LoadStartOnceLoaderFound(call, found) ==
  IF found THEN << [kind |-> "loadstart", source |-> call] >> ELSE << >>

\* this.onloadstart({source: data}), before the loaders are looked at
LoadStart(call, found) == << [kind |-> "loadstart", source |-> call] >>

\* FilesLoader.load(data); a list it rejects for its first file counts in the
\* work bound with its length, any other list with the readers it creates
Load(input) ==
  LET data == input.list
      call == Len(loaderCalls) + 1
      found == data # << >> /\ AcceptingLoaders(data[1]) # {}
      loader == FirstLoader(data[1])
      n == FilesStarted(loader, data)
      first == Len(fileReaders)
      started == IF data = << >> \/ ~found THEN Len(data) ELSE n
  IN /\ Len(loaderCalls) + Len(fileReaders) + 1 + started <= MaxLoaderWork
     /\ IF NoData(input)
        THEN /\ loaderCalls' = Append(loaderCalls,
                  [op |-> "load", data |-> data, result |-> "returned",
                   loader |-> "none", late |-> Outstanding,
                   aborted |-> {}, loaderAborted |-> FALSE,
                   given |-> input.given])
             /\ UNCHANGED <<inputData, readers, runningLoader, nLoad, nLoadend,
                            fileReaders, loaderLoads, loaderEvents>>
        ELSE /\ inputData' = call
             /\ nLoad' = StoredCount(nLoad)
             /\ nLoadend' = StoredCount(nLoadend)
             /\ loaderEvents' = loaderEvents \o LoadStart(call, found)
             /\ UNCHANGED loaderLoads
             /\ IF ~found
                THEN /\ readers' = << >>
                     /\ runningLoader' = 0
                     /\ UNCHANGED fileReaders
                     /\ loaderCalls' = Append(loaderCalls,
                          [op |-> "load", data |-> data, result |-> "NoLoader",
                           loader |-> "none", late |-> Outstanding,
                           aborted |-> {}, loaderAborted |-> FALSE,
                           given |-> input.given])
                ELSE /\ runningLoader' = call
                     /\ fileReaders' = fileReaders \o
                          [i \in 1..n |-> NewReader(call, data, i - 1)]
                     /\ readers' = [i \in 1..n |-> first + i]
                     /\ loaderCalls' = Append(loaderCalls,
                          [op |-> "load", data |-> data,
                           result |-> IF n = Len(data) THEN "returned"
                                      ELSE "DifferentType",
                           loader |-> loader, late |-> Outstanding,
                           aborted |-> {}, loaderAborted |-> FALSE,
                           given |-> input.given])
     /\ UNCHANGED DecoderVars

\* a file reader has read its file: its load handler gives the result to the
\* loader
ReaderLoad(r) ==
  /\ fileReaders[r].step = "reading"
  /\ fileReaders' = [fileReaders EXCEPT ![r].step = "ending",
                                        ![r].readyState = DONE,
                                        ![r].job = "loading"]
  /\ loaderLoads' = loaderLoads \cup {
       [loader |-> fileReaders[r].onload.loader,
        buffer |-> FileResult(fileReaders[r].file),
        origin |-> fileReaders[r].onload.origin,
        index |-> fileReaders[r].onload.index,
        reader |-> r]}
  /\ UNCHANGED <<inputData, readers, runningLoader, nLoad, nLoadend,
                 loaderCalls, loaderEvents, DecoderVars>>

\* a file reader has failed to read its file
ReaderError(r) ==
  /\ fileReaders[r].step = "reading"
  /\ fileReaders' = [fileReaders EXCEPT ![r].step = "ending",
                                        ![r].readyState = DONE]
  /\ UNCHANGED <<inputData, readers, runningLoader, nLoad, nLoadend,
                 loaderCalls, loaderLoads, loaderEvents, DecoderVars>>

\* a loader that counts the end events of the readers of its current batch
\* only
ReaderLoadendOfBatch(r) ==
  /\ fileReaders[r].step = "ending"
  /\ fileReaders' = [fileReaders EXCEPT ![r].step = "ended"]
  /\ IF fileReaders[r].call = inputData
     THEN AddLoadend(1) ELSE UNCHANGED <<nLoadend, loaderEvents>>
  /\ UNCHANGED <<inputData, readers, runningLoader, nLoad, loaderCalls,
                 loaderLoads, DecoderVars>>

\* the end event of a file reader, after its load or its error event
ReaderLoadend(r) ==
  /\ fileReaders[r].step = "ending"
  /\ fileReaders' = [fileReaders EXCEPT ![r].step = "ended"]
  /\ AddLoadend(1)
  /\ UNCHANGED <<inputData, readers, runningLoader, nLoad, loaderCalls,
                 loaderLoads, DecoderVars>>

\* the loader has loaded the content of a file: its onload callback
LoaderLoad(r) ==
  /\ fileReaders[r].job = "loading"
  /\ fileReaders' = [fileReaders EXCEPT ![r].job = "loaded"]
  /\ AddLoad
  /\ UNCHANGED <<inputData, readers, runningLoader, nLoadend, loaderCalls,
                 loaderLoads, DecoderVars>>

\* the loader has failed on the content of a file: its onerror callback
LoaderError(r) ==
  /\ fileReaders[r].job = "loading"
  /\ fileReaders' = [fileReaders EXCEPT ![r].job = "failed"]
  /\ UNCHANGED <<inputData, readers, runningLoader, nLoad, nLoadend,
                 loaderCalls, loaderLoads, loaderEvents, DecoderVars>>

\* the end event of the loader for a file: its onloadend callback
LoaderLoadend(r) ==
  /\ fileReaders[r].job \in {"loaded", "failed"}
  /\ fileReaders' = [fileReaders EXCEPT ![r].job = "ended"]
  /\ AddLoadend(1)
  /\ UNCHANGED <<inputData, readers, runningLoader, nLoad, loaderCalls,
                 loaderLoads, DecoderVars>>

\* loader.isLoading() of the loader of a load() call
IsLoading(call) ==
  \E r \in 1..Len(fileReaders) :
    fileReaders[r].onload.loader = call /\ fileReaders[r].job = "loading"

\* an abort() that aborts every stored reader
ReadersToAbortAll == {readers[i] : i \in 1..Len(readers)}

\* the stored readers abort() aborts
ReadersToAbort ==
  {readers[i] : i \in {k \in 1..Len(readers) :
                         fileReaders[readers[k]].readyState = LOADING}}

\* FilesLoader.abort(): each aborted reader fires its abort event and its end
\* event at once; the aborted loader drops the files it is busy with and
\* fires `ends` end events
LoaderAbort(ends) ==
  LET abortLoader == runningLoader # 0 /\ IsLoading(runningLoader)
  IN /\ Len(loaderCalls) + Len(fileReaders) < MaxLoaderWork
     /\ ends > 0 => abortLoader
     /\ loaderCalls' = Append(loaderCalls,
          [op |-> "abort", data |-> << >>, result |-> "returned",
           loader |-> "none", late |-> Outstanding,
           aborted |-> ReadersToAbort, loaderAborted |-> abortLoader,
           given |-> "none"])
     /\ fileReaders' = [r \in 1..Len(fileReaders) |->
          IF r \in ReadersToAbort
          THEN [fileReaders[r] EXCEPT !.step = "ended", !.readyState = DONE]
          ELSE IF abortLoader /\ fileReaders[r].onload.loader = runningLoader
                  /\ fileReaders[r].job = "loading"
               THEN [fileReaders[r] EXCEPT !.job = "dropped"]
               ELSE fileReaders[r]]
     /\ IF inputData = 0
        THEN UNCHANGED <<nLoadend, loaderEvents>>
        ELSE AddLoadend(Cardinality(ReadersToAbort) + ends)
     /\ UNCHANGED <<inputData, readers, runningLoader, nLoad, loaderLoads,
                    DecoderVars>>

FilesInit ==
  /\ Init
  /\ algoName = "rle"
  /\ numberOfData = 1
  /\ decoderScripts = {}
  /\ ~hasJpegBaselineDecoder /\ ~hasJpegLosslessDecoder /\ ~hasJpeg2000Decoder

FilesNext ==
  \/ \E input \in LoadInputs : Load(input)
  \/ \E ends \in {0, 1} : LoaderAbort(ends)
  \/ \E r \in 1..Len(fileReaders) : ReaderLoad(r)
  \/ \E r \in 1..Len(fileReaders) : ReaderError(r)
  \/ \E r \in 1..Len(fileReaders) : ReaderLoadend(r)
  \/ \E r \in 1..Len(fileReaders) : LoaderLoad(r)
  \/ \E r \in 1..Len(fileReaders) : LoaderError(r)
  \/ \E r \in 1..Len(fileReaders) : LoaderLoadend(r)

FilesSpec == FilesInit /\ [][FilesNext]_vars

\* ---------------------------------------------------- registry changes
\* The decoder while the host changes the registry of worker scripts.

\* an rle decoder, built with the registry empty or filled, on a page that
\* loads no codec engine of its own
RegistryInit ==
  /\ Init
  /\ algoName = "rle"
  /\ ~hasJpegBaselineDecoder /\ ~hasJpegLosslessDecoder /\ ~hasJpeg2000Decoder

RegistryNext ==
  \/ \E item \in ItemNumbers, codecOk \in BOOLEAN : Decode(item, codecOk)
  \/ Abort
  \/ \E task \in poolRunning : TaskEnd(task)
  \/ \E task \in poolRunning : TaskError(task)
  \/ \E scripts \in {{}, ScriptAlgos} : SetDecoderScripts(scripts)

RegistrySpec == RegistryInit /\ [][RegistryNext]_vars

\* ================================================================= claims

Synch == pixelDecoder = "Synch"
CallIds == 1..Len(calls)
EventIds == 1..Len(events)
IsDecode(c) == calls[c].op = "decode"
IsAbort(c) == calls[c].op = "abort"
\* the number of events of a kind among the first n events
CountBefore(kind, n) == Cardinality({i \in 1..n : events[i].kind = kind})
CountKind(kind) == CountBefore(kind, Len(events))
\* the events a call has produced
EventsOf(c) == SelectSeq(events, LAMBDA e : e.call = c)
\* what an observer sees of an event
View(e) == <<e.kind, e.index, e.call, e.handler>>
\* an event without the function that handled it
Shape(e) == <<e.kind, e.index, e.call>>
EventViews == [i \in EventIds |-> View(events[i])]
CallerHandlers == [k \in Kinds |-> "h"]

\* the instance has received exactly numberOfData calls, all of them decode(),
\* the caller's handlers being attached before the first of them
BatchOfKDecodes ==
  /\ Synch
  /\ Len(calls) = numberOfData
  /\ \A c \in CallIds : IsDecode(c)
  /\ calls[1].facade = CallerHandlers

\* K per-item events in call order, then all-decoded, then decode-end, the last
\* three in the K-th call
ExpectedBatchViews ==
  [i \in 1..(numberOfData + 2) |->
     IF i <= numberOfData THEN <<"decodeditem", calls[i].item, i, "h">>
     ELSE IF i = numberOfData + 1 THEN <<"decoded", NoIndex, numberOfData, "h">>
     ELSE <<"decodeend", NoIndex, numberOfData, "h">>]

C2_AllDecodedAfterKItems ==
  Synch =>
    /\ CountKind("decoded") <= 1
    /\ \A i \in EventIds :
         events[i].kind = "decoded" => CountBefore("decodeditem", i) = numberOfData

\* C3: in synchronous mode the decode-end event is emitted at most once,
\* whatever decode() and abort() calls follow the end of the batch.
C3_DecodeEndAtMostOnce ==
  Synch => CountKind("decodeend") <= 1

\* C4: in synchronous mode the first abort() call, made before any frame has
\* been delivered, leaves exactly one abort event followed by exactly one
\* decode-end event, both emitted by that call, and no all-decoded event.
C4_AbortBeforeCompletion ==
  \A c \in CallIds :
    ( /\ Synch
      /\ IsAbort(c)
      /\ \A b \in 1..(c - 1) : IsDecode(b) /\ calls[b].result # "returned" )
    => LET upTo == SelectSeq(events, LAMBDA e : e.call <= c)
       IN [i \in DOMAIN upTo |-> Shape(upTo[i])]
            = << <<"abort", NoIndex, c>>, <<"decodeend", NoIndex, c>> >>

\* C4 witness: abort() has been called on a synchronous decoder that has
\* delivered nothing, and its two events are recorded.
C4_Witness ==
  /\ Synch
  /\ Len(calls) >= 1
  /\ IsAbort(1)
  /\ Len(EventsOf(1)) = 2

\* C5: every abort() call made on the facade while the caller's handlers are
\* attached to it invokes the caller's onabort and ondecodeend handlers.
C5_AbortReachesCaller ==
  \A c \in CallIds :
    (IsAbort(c) /\ calls[c].facade = CallerHandlers)
    => \A k \in {"abort", "decodeend"} :
         \E i \in EventIds :
           /\ events[i].call = c
           /\ events[i].kind = k
           /\ events[i].handler = "h"

\* C6: an abort() call that follows another abort() call on the same instance
\* emits no event.
C6_AbortIdempotent ==
  \A c \in CallIds :
    (IsAbort(c) /\ \E b \in 1..(c - 1) : IsAbort(b)) => EventsOf(c) = << >>

\* C7: a decode() call that follows an abort() call on the same instance emits
\* no per-item, all-decoded or decode-end event.
C7_AbortHaltsDispatch ==
  \A c \in CallIds :
    (IsDecode(c) /\ \E b \in 1..(c - 1) : IsAbort(b))
    => \A i \in EventIds :
         events[i].call = c
           => events[i].kind \notin {"decodeditem", "decoded", "decodeend"}

\* C8: every per-item event carries the itemNumber of the decode() call that
\* produced it, and every task handed to the pool carries the itemNumber of
\* the call that created it, whatever the order in which the tasks end.
C8_ItemEventCarriesIndex ==
  /\ \A i \in EventIds :
       events[i].kind = "decodeditem"
         => /\ events[i].call \in CallIds
            /\ IsDecode(events[i].call)
            /\ events[i].index = calls[events[i].call].item
  /\ \A t \in poolRunning \cup {poolQueue[q] : q \in DOMAIN poolQueue} :
       t.call \in CallIds /\ t.item = calls[t.call].item

\* C8 witness: two tasks with different item numbers have ended in the order
\* opposite to their submission, and both per-item events are recorded.
C8_Witness ==
  \E i, j \in EventIds :
    /\ i < j
    /\ events[i].kind = "decodeditem"
    /\ events[j].kind = "decodeditem"
    /\ events[i].call > events[j].call
    /\ events[i].index # events[j].index

\* C9: a synchronous decode() for jpeg-lossless, jpeg-baseline or jpeg2000
\* whose codec engine is not provided throws the missing-decoder error and
\* emits no event.
C9_MissingCodecFails ==
  \A c \in CallIds :
    ( /\ Synch
      /\ IsDecode(c)
      /\ \/ algoName = "jpeg-lossless" /\ ~hasJpegLosslessDecoder
         \/ algoName = "jpeg-baseline" /\ ~hasJpegBaselineDecoder
         \/ algoName = "jpeg2000" /\ ~hasJpeg2000Decoder )
    => /\ calls[c].result = "MissingCodec"
       /\ EventsOf(c) = << >>

\* C9 witness: a jpeg2000 decode() has been made with no JPEG 2000 engine.
C9_Witness ==
  /\ Synch
  /\ algoName = "jpeg2000"
  /\ ~hasJpeg2000Decoder
  /\ \E c \in CallIds : IsDecode(c) /\ calls[c].result = "MissingCodec"

\* C10: a synchronous decode() for an algorithm that is none of jpeg-lossless,
\* jpeg-baseline, jpeg2000 and rle fails with an unsupported-algorithm error
\* and emits no per-item event.
C10_UnsupportedAlgorithmFails ==
  \A c \in CallIds :
    ( /\ Synch
      /\ IsDecode(c)
      /\ algoName \notin {"jpeg-lossless", "jpeg-baseline", "jpeg2000", "rle"} )
    => /\ calls[c].result = "UnsupportedAlgorithm"
       /\ \A i \in EventIds :
            events[i].call = c => events[i].kind # "decodeditem"

\* the tasks of the decode() calls made so far
HasEvent(c, kind) == \E i \in EventIds : events[i].call = c /\ events[i].kind = kind
\* the pool holds no task
PoolIdle == poolRunning = {} /\ poolQueue = << >>

\* C11: a synchronous decode() whose task fails returns to its caller, and the
\* task either delivers its per-item event or is reported by an error event of
\* that call.
C11_FailureCaughtAtTaskBoundary ==
  \A c \in CallIds :
    (Synch /\ IsDecode(c))
    => /\ calls[c].result = "returned"
       /\ HasEvent(c, "decodeditem") \/ HasEvent(c, "error")

\* a task of the batch has failed: its decode() threw, or an error event
\* carries its call
TaskFailed(c) == calls[c].result # "returned" \/ HasEvent(c, "error")

\* C12: once a batch of K decode() calls with exactly one failing task has been
\* worked off, each of the other K-1 tasks has delivered its per-item event and
\* the decode-end event has been emitted.
C12_FailureSparesSiblings ==
  ( /\ Len(calls) = numberOfData
    /\ \A c \in CallIds : IsDecode(c)
    /\ PoolIdle
    /\ Cardinality({c \in CallIds : TaskFailed(c)}) = 1 )
  => /\ \A c \in CallIds : ~TaskFailed(c) => HasEvent(c, "decodeditem")
     /\ CountKind("decodeend") >= 1

\* C13: every event of an abort() call is an abort event or a decode-end event;
\* error events belong to decode() calls only.
C13_AbortEmitsNoError ==
  \A i \in EventIds :
    IsAbort(events[i].call) => events[i].kind \in {"abort", "decodeend"}

\* C13 witness: abort() calls have run in the middle of a batch and after a
\* failed decode(), and have emitted their events.
C13_Witness ==
  /\ \E c \in CallIds : IsAbort(c) /\ HasEvent(c, "abort") /\ HasEvent(c, "decodeend")
  /\ \E c \in CallIds : IsDecode(c) /\ HasEvent(c, "decodeditem")
  /\ \E c \in CallIds : IsDecode(c) /\ TaskFailed(c)

\* C14: the delegate is the worker-pool decoder exactly when the registry has
\* an entry for the algorithm at construction, it is never replaced, and every
\* decode() and abort() is handled by it whatever the registry holds by then.
C14_ModeDecidedAtConstruction ==
  /\ pixelDecoder = (IF algoName \in decoderScripts THEN "Asynch" ELSE "Synch")
  /\ [][pixelDecoder' = pixelDecoder]_vars
  /\ [](\A c \in CallIds : calls[c].by = pixelDecoder)

\* C14 witness: a decode() and an abort() have been handled by a delegate that
\* the registry of the moment of the call would not have selected.
C14_Witness ==
  /\ \E c \in CallIds :
       /\ IsDecode(c)
       /\ calls[c].by # (IF algoName \in calls[c].scripts THEN "Asynch" ELSE "Synch")
  /\ \E c \in CallIds :
       /\ IsAbort(c)
       /\ calls[c].by # (IF algoName \in calls[c].scripts THEN "Asynch" ELSE "Synch")

\* the first decode() call made so far
FirstDecode == CHOOSE c \in CallIds : IsDecode(c) /\ \A d \in 1..(c - 1) : ~IsDecode(d)

\* C15: the delegate's callbacks are wired as soon as, and only when, the first
\* decode() call is made (they are the facade's handlers of that moment ever
\* after), and every event the delegate emits invokes a handler of the facade.
C15_WiredOnceEveryEventReachesFacade ==
  /\ areCallbacksSet <=> \E c \in CallIds : IsDecode(c)
  /\ areCallbacksSet =>
       \A k \in Kinds : decoderHandlers[k] = calls[FirstDecode].facade[k]
  /\ \A i \in EventIds : events[i].handler \in Handlers

\* C16: the pool never runs more tasks than its capacity, a task waits in the
\* queue only while every slot is taken, and every task that has not completed
\* is running or queued.
C16_AtMostNRunning ==
  Synch \/
  ( /\ Cardinality(poolRunning) <= poolSize
    /\ poolQueue # << >> => Cardinality(poolRunning) = poolSize
    /\ ~poolAborted =>
         poolSubmitted - poolCompleted = Cardinality(poolRunning) + Len(poolQueue) )

\* C16 witness: more tasks than slots have been submitted; every slot of a
\* pool of two or more runs a task and a task waits.
C16_Witness ==
  /\ ~Synch
  /\ poolSize >= 2
  /\ poolSubmitted > poolSize
  /\ Cardinality(poolRunning) = poolSize
  /\ poolQueue # << >>

\* a decode() call whose task has delivered its per-item event
Completed(c) == c \in CallIds /\ HasEvent(c, "decodeditem")

\* C17: in a batch that is not aborted and whose running tasks all end, every
\* submitted task eventually delivers its per-item event, and once the K tasks
\* of the batch are submitted the all-decoded and the decode-end events are
\* eventually emitted.
C17_EveryTaskCompletes ==
  /\ \A c \in 1..MaxCalls : [](c \in CallIds => <>Completed(c))
  /\ [](poolSubmitted >= numberOfData
          => <>(CountKind("decoded") = 1 /\ CountKind("decodeend") = 1))

\* C17 witness: a task that had to wait in the queue has delivered its item,
\* and the batch has emitted all-decoded and decode-end.
C17_Witness ==
  /\ \E c \in CallIds : calls[c].queued /\ Completed(c)
  /\ CountKind("decoded") = 1
  /\ CountKind("decodeend") = 1

C19_AbortCancelsAll ==
  (~Synch /\ poolAborted) =>
    /\ PoolIdle
    /\ CountKind("abort") =
         (IF \E i \in EventIds : events[i].kind = "decodeend" /\ IsDecode(events[i].call)
          THEN 0 ELSE 1)
    /\ \A i \in EventIds :
         events[i].kind = "abort" =>
           /\ i + 1 = Len(events)
           /\ events[i + 1].kind = "decodeend"
           /\ events[i + 1].call = events[i].call

\* C19 witness: abort() has cancelled a running task and a task still in the
\* queue, and has emitted its abort event.
C19_Witness ==
  /\ ~Synch
  /\ poolAborted
  /\ poolCompleted = 0
  /\ \E c \in CallIds : IsDecode(c) /\ calls[c].queued
  /\ CountKind("abort") = 1

\* C20: every queued task was submitted after every running task, and the
\* queue holds its tasks in submission order: the tasks leave the queue in the
\* order they entered it.
C20_QueueIsFifo ==
  Synch \/
  ( /\ \A task \in poolRunning : \A i \in 1..Len(poolQueue) :
         task.call < poolQueue[i].call
    /\ \A i, j \in 1..Len(poolQueue) :
         i < j => poolQueue[i].call < poolQueue[j].call )

\* C20 witness: a task that had to wait in the queue is running, another task
\* is still waiting and the queue has held two tasks at once.
C20_Witness ==
  /\ ~Synch
  /\ \E task \in poolRunning : calls[task.call].queued
  /\ poolQueue # << >>
  /\ Cardinality({c \in CallIds : calls[c].queued}) >= 2

\* ------------------------------------------------------ FilesLoader claims
LoaderCallIds == 1..Len(loaderCalls)
\* the load() calls that started a batch
Batches == {b \in LoaderCallIds :
             loaderCalls[b].op = "load" /\ loaderCalls[b].data # << >>}
\* the number of events of a kind emitted with the batch as source
CountLoaderEvents(kind, b) ==
  Cardinality({i \in 1..Len(loaderEvents) :
                 loaderEvents[i].kind = kind /\ loaderEvents[i].source = b})
\* the readers created by a load() call
ReadersOf(b) == {r \in 1..Len(fileReaders) : fileReaders[r].call = b}

\* C21: while a FilesLoader has been given one batch only, of N files, it has
\* emitted onloadend once if its count of end events has reached 2N and not
\* at all if it has not, and the count never passes 2N.
C21_LoadendAtTwiceN ==
  \A b \in Batches :
    Batches = {b} =>
      /\ nLoadend <= 2 * Len(loaderCalls[b].data)
      /\ CountLoaderEvents("loadend", b) =
           (IF nLoadend = 2 * Len(loaderCalls[b].data) THEN 1 ELSE 0)

\* C21 witness: a batch of two files has received its four end events, and
\* onloadend is the last event emitted, after onload.
C21_Witness ==
  /\ Batches = {1}
  /\ Len(loaderCalls) = 1
  /\ Len(loaderCalls[1].data) = 2
  /\ nLoadend = 4
  /\ loaderEvents[Len(loaderEvents)].kind = "loadend"
  /\ loaderEvents[Len(loaderEvents) - 1].kind = "load"

\* C22: while a FilesLoader has been given one batch only, of N files, it has
\* emitted onload once, with the batch's data as source, if it has counted N
\* load events and not at all if it has counted fewer; it never counts more.
C22_LoadAtN ==
  \A b \in Batches :
    Batches = {b} =>
      /\ nLoad <= Len(loaderCalls[b].data)
      /\ CountLoaderEvents("load", b) =
           (IF nLoad = Len(loaderCalls[b].data) THEN 1 ELSE 0)
      /\ \A i \in 1..Len(loaderEvents) :
           loaderEvents[i].kind = "load" => loaderEvents[i].source = b

\* C22 witness: both files of a batch of two are loaded and onload has been
\* emitted, the reader of the second file having ended before that of the
\* first.
C22_Witness ==
  /\ Batches = {1}
  /\ Len(loaderCalls[1].data) = 2
  /\ nLoad = 2
  /\ CountLoaderEvents("load", 1) = 1
  /\ fileReaders[1].step = "ending"
  /\ fileReaders[2].step = "ended"

\* the step is a load() call that starts a batch
StartsBatch ==
  /\ Len(loaderCalls') = Len(loaderCalls) + 1
  /\ loaderCalls'[Len(loaderCalls')].op = "load"
  /\ loaderCalls'[Len(loaderCalls')].data # << >>

\* C23: a load() call with a non-empty list leaves both counters at 0, the
\* stored readers being those of the new list only and the stored loader its
\* own or none, and emits loadstart as its only event; and a current batch
\* that was started with no callback of an earlier batch outstanding has
\* emitted onload once if N loads are counted and onloadend once if 2N ends
\* are counted, and neither otherwise.
C23_CountersResetPerBatch ==
  /\ [][StartsBatch =>
          /\ nLoad' = 0 /\ nLoadend' = 0
          /\ inputData' = Len(loaderCalls')
          /\ \A i \in 1..Len(readers') :
               fileReaders'[readers'[i]].call = inputData'
          /\ runningLoader' \in {0, inputData'}
          /\ loaderEvents' = Append(loaderEvents,
                [kind |-> "loadstart", source |-> inputData'])]_vars
  /\ [](inputData # 0 /\ ~loaderCalls[inputData].late =>
          /\ CountLoaderEvents("load", inputData) =
               (IF nLoad = Len(InputData) THEN 1 ELSE 0)
          /\ CountLoaderEvents("loadend", inputData) =
               (IF nLoadend = 2 * Len(InputData) THEN 1 ELSE 0))

\* C23 witness: a second batch, started after the first had fully ended, has
\* emitted its own onload and onloadend; so had the first.
C23_Witness ==
  /\ Batches = {1, 2}
  /\ ~loaderCalls[2].late
  /\ \A b \in {1, 2} :
       CountLoaderEvents("load", b) = 1 /\ CountLoaderEvents("loadend", b) = 1

\* the number of reader and loader end events delivered by the step
EndsDelivered ==
  Cardinality({r \in 1..Len(fileReaders) :
                 fileReaders[r].step # "ended" /\ fileReaders'[r].step = "ended"})
  + Cardinality({r \in 1..Len(fileReaders) :
                 fileReaders[r].job # "ended" /\ fileReaders'[r].job = "ended"})
\* the number of loader load events delivered by the step
LoadsDelivered ==
  Cardinality({r \in 1..Len(fileReaders) :
                 fileReaders[r].job = "loading" /\ fileReaders'[r].job = "loaded"})

\* C29: every end event and every load event delivered after a load() call,
\* those of the readers and loaders of earlier batches included, is counted in
\* the counters of the current batch.
C29_LateEventsCounted ==
  [][inputData' = inputData /\ inputData # 0 =>
       /\ nLoadend' >= nLoadend + EndsDelivered
       /\ nLoad' = nLoad + LoadsDelivered]_vars

\* C29 witness: the current batch, started while callbacks of the previous
\* batch were outstanding, has emitted its onload and its onloadend while a
\* file of its own is still being read.
C29_Witness ==
  /\ \E b \in Batches :
       /\ b = inputData
       /\ CountLoaderEvents("load", b) = 1
       /\ CountLoaderEvents("loadend", b) = 1
       /\ \E r \in ReadersOf(b) : fileReaders[r].step = "reading"
  /\ loaderCalls[inputData].late

\* C30: every load() call made on a loader was made by the load handler of a
\* reader that has fired its load event, on the loader of that reader's batch,
\* with the content of the file at the reader's position in the list, that
\* file and that position; and the loader is given a file's content by no
\* other way.
C30_LoaderGetsItsFile ==
  /\ \A x \in loaderLoads :
       LET fr == fileReaders[x.reader]
           data == loaderCalls[fr.call].data
       IN /\ fr.step # "reading"
          /\ x.loader = fr.call
          /\ x.index = fr.index
          /\ x.origin = data[fr.index + 1]
          /\ x.buffer = << "content of", data[fr.index + 1] >>
  /\ \A r \in 1..Len(fileReaders) :
       fileReaders[r].job # "none" <=> \E x \in loaderLoads : x.reader = r
  /\ \A x, y \in loaderLoads : x.reader = y.reader => x = y

\* C30 witness: in a batch of two different files the loader has been given
\* the second file while the first is still being read.
C30_Witness ==
  \E x \in loaderLoads :
    /\ x.index = 1
    /\ fileReaders[x.reader - 1].call = fileReaders[x.reader].call
    /\ fileReaders[x.reader - 1].step = "reading"
    /\ fileReaders[x.reader - 1].file # fileReaders[x.reader].file

\* ------------------------------------------------------------ frame claims
\* the data of the per-item event of a decode() call
DataOf(c) ==
  events[CHOOSE i \in EventIds :
           events[i].call = c /\ events[i].kind = "decodeditem"].data

IsString4(v) == v.type = "string" /\ Len(v.chars) = 4

\* C25: a constructor call returns a Tag exactly when group and element are
\* both strings of length 4, and throws otherwise; the Tag returns its
\* constructor arguments from getGroup() and getElement().
C25_TagOfString4 ==
  \A t \in tags :
    /\ t.error = "none" <=> (IsString4(t.group) /\ IsString4(t.element))
    /\ t.error = "none" => GetGroup(t) = t.group /\ GetElement(t) = t.element

\* the numbers a Tag's group and element read as
GroupNumber(t) == ParseInt(GetGroup(t))
ElementNumber(t) == ParseInt(GetElement(t))
\* a sorts before b: by group, then by element, where all four are numbers
SortsBefore(a, b) ==
  /\ ~GroupNumber(a).nan /\ ~GroupNumber(b).nan
  /\ \/ GroupNumber(a).n < GroupNumber(b).n
     \/ /\ GroupNumber(a).n = GroupNumber(b).n
        /\ ~ElementNumber(a).nan /\ ~ElementNumber(b).nan
        /\ ElementNumber(a).n < ElementNumber(b).n

\* the result is negative when a sorts before b, positive when b sorts before a
TagCompareOrders ==
  \A a, b \in Created :
    /\ SortsBefore(a, b) => Negative(TagCompareFunction(a, b))
    /\ SortsBefore(b, a) => Positive(TagCompareFunction(a, b))
\* compare(a, b) = -compare(b, a)
TagCompareAntisymmetric ==
  \A a, b \in Created :
    StrictEquals(TagCompareFunction(a, b), Negate(TagCompareFunction(b, a)))
\* a before b and b before c give a before c
TagCompareTransitive ==
  \A a, b, c \in Created :
    (Negative(TagCompareFunction(a, b)) /\ Negative(TagCompareFunction(b, c)))
    => Negative(TagCompareFunction(a, c))
\* equal Tags compare as 0
TagCompareZeroIfEquals ==
  \A a, b \in Created :
    TagEquals(a, b) => StrictEquals(TagCompareFunction(a, b), Num(0))
\* Tags that compare as 0 are equal
TagCompareZeroOnlyIfEquals ==
  \A a, b \in Created :
    StrictEquals(TagCompareFunction(a, b), Num(0)) => TagEquals(a, b)

\* C26: tagCompareFunction orders the Tags by group and then by element read
\* as hexadecimal numbers, is antisymmetric and transitive, and is 0 exactly
\* for Tags that are equal by equals().
C26_CompareMatchesEquals ==
  /\ TagCompareOrders
  /\ TagCompareAntisymmetric
  /\ TagCompareTransitive
  /\ TagCompareZeroIfEquals
  /\ TagCompareZeroOnlyIfEquals
  /\ compared.made =>
       /\ compared.res = TagCompareFunction(compared.a, compared.b)
       /\ compared.equals = TagEquals(compared.a, compared.b)

\* ------------------------------------------------- handler capture claims
\* C27: once decode() has been called, every event of that call and of the
\* calls after it invokes the handler the facade had for its kind when
\* decode() was first called, whatever the caller has assigned since.
C27_HandlersCapturedAtFirstDecode ==
  (\E c \in CallIds : IsDecode(c)) =>
    \A i \in EventIds :
      events[i].call >= FirstDecode
      => events[i].handler = calls[FirstDecode].facade[events[i].kind]

\* C27 witness: the first decode() was made with the default handlers, the
\* caller attached its own before a later decode() or abort(), and that later
\* call has emitted an event.
C27_Witness ==
  /\ \E c \in CallIds : IsDecode(c)
  /\ calls[FirstDecode].facade = DefaultHandlers
  /\ \E i \in EventIds :
       /\ events[i].call > FirstDecode
       /\ calls[events[i].call].facade = CallerHandlers
       /\ events[i].handler = "default"

\* -------------------------------------------- synchronous event kinds
\* the kinds of event the synchronous decoder calls back with
SynchKinds == {"decodeditem", "decoded", "decodeend", "abort"}

\* C28: in synchronous mode every event emitted is a per-item, all-decoded,
\* decode-end or abort event: none is a decode-start or an error event.
C28_SynchEmitsFourKinds ==
  Synch => \A i \in EventIds : events[i].kind \in SynchKinds

\* C28 witness: a synchronous decoder has completed a batch, has had a
\* decode() throw and has been aborted, and has emitted each of its four kinds
\* of event.
C28_Witness ==
  /\ Synch
  /\ \A k \in SynchKinds : CountKind(k) >= 1
  /\ \E c \in CallIds : IsDecode(c) /\ calls[c].result # "returned"
  /\ \E c \in CallIds : IsAbort(c)

\* ------------------------------------------------- FilesLoader failures
\* the load() calls that threw as no loader accepts their first file
NoLoaderCalls == {c \in Batches : loaderCalls[c].result = "NoLoader"}
\* the batch has had its start event, no reader, and no onload or onloadend
StartedOnly(c) ==
  /\ CountLoaderEvents("loadstart", c) = 1
  /\ ReadersOf(c) = {}
  /\ CountLoaderEvents("load", c) = 0
  /\ CountLoaderEvents("loadend", c) = 0

\* C31 as stated: every load() call that threw as no loader accepts its first
\* file has emitted onloadstart, has created no reader, and no onload and no
\* onloadend has been emitted with its data.
C31_NoLoaderNoCompletion ==
  \A c \in NoLoaderCalls : StartedOnly(c)

\* C31: every load() call that threw as no loader accepts its first file, made
\* while no callback of an earlier batch was outstanding, has emitted
\* onloadstart, has created no reader, and no onload and no onloadend has been
\* emitted with its data.
C31_NoLoaderNoCompletionWhenClean ==
  \A c \in NoLoaderCalls : ~loaderCalls[c].late => StartedOnly(c)

\* C31 witness: after a batch that has fully ended, a load() of a file no
\* loader accepts has thrown, and an abort() has followed; the start event of
\* the failed batch is the last event.
C31_Witness ==
  /\ Len(loaderCalls) = 3
  /\ CountLoaderEvents("loadend", 1) = 1
  /\ 2 \in NoLoaderCalls /\ ~loaderCalls[2].late
  /\ loaderCalls[3].op = "abort"
  /\ loaderEvents[Len(loaderEvents)] = [kind |-> "loadstart", source |-> 2]


\* the load() calls that threw at a file their loader cannot load
DifferentTypeCalls == {c \in Batches : loaderCalls[c].result = "DifferentType"}
\* the position in the list, from 0, of the first file the loader of the call
\* cannot load
FirstRejected(c) ==
  LET data == loaderCalls[c].data
      bad == {k \in 1..Len(data) : ~CanLoadFile(loaderCalls[c].loader, data[k])}
  IN (CHOOSE k \in bad : \A j \in bad : k <= j) - 1
\* the batch has a reader for each file before the rejected one and for no
\* other, has not emitted onloadend, and while it is the current batch the
\* count of end events is below twice its length
StoppedAtRejected(c) ==
  /\ FirstRejected(c) >= 1
  /\ Cardinality(ReadersOf(c)) = FirstRejected(c)
  /\ {fileReaders[r].index : r \in ReadersOf(c)} = 0..(FirstRejected(c) - 1)
  /\ CountLoaderEvents("loadend", c) = 0
  /\ inputData = c => nLoadend < 2 * Len(loaderCalls[c].data)
\* the step is a load() call that throws at a file its loader cannot load
ThrowsAtFile ==
  /\ StartsBatch
  /\ loaderCalls'[Len(loaderCalls')].result = "DifferentType"

\* C32 as stated: every load() call that threw at file i >= 1 has readers for
\* the files 0..i-1 only, its end-event count stays below 2N and no onloadend
\* is emitted with its data.
C32_ThrowAtFileNeverEnds ==
  \A c \in DifferentTypeCalls : StoppedAtRejected(c)

\* C32: a load() call that throws at file i >= 1 leaves the readers of the
\* files 0..i-1 reading, and if it was made while no callback of an earlier
\* batch was outstanding, it has readers for the files 0..i-1 only, its
\* end-event count stays below 2N and no onloadend is emitted with its data.
C32_ThrowAtFileNeverEndsWhenClean ==
  /\ [][ThrowsAtFile =>
          \A r \in 1..Len(fileReaders') :
            fileReaders'[r].call = Len(loaderCalls')
            => /\ fileReaders'[r].step = "reading"
               /\ fileReaders'[r].readyState = LOADING]_vars
  /\ [](\A c \in DifferentTypeCalls :
          ~loaderCalls[c].late => StoppedAtRejected(c))

\* C32 witness: a load() of two files has thrown at the second, with no
\* callback outstanding; the reader of the first file has gone on, the file is
\* loaded and both its end events are counted.
C32_Witness ==
  \E c \in DifferentTypeCalls :
    /\ ~loaderCalls[c].late
    /\ inputData = c
    /\ Len(loaderCalls[c].data) = 2
    /\ nLoad = 1 /\ nLoadend = 2
    /\ \A r \in ReadersOf(c) :
         fileReaders[r].step = "ended" /\ fileReaders[r].job = "ended"


\* ---------------------------------------------------- FilesLoader abort
\* the step is an abort() call
AbortStep ==
  /\ Len(loaderCalls') = Len(loaderCalls) + 1
  /\ loaderCalls'[Len(loaderCalls')].op = "abort"
\* the stored readers, and those of them that are reading
StoredReaders == {readers[i] : i \in 1..Len(readers)}
StoredLoading == {r \in StoredReaders : fileReaders[r].readyState = LOADING}
\* a loader is stored and is busy with a file
StoredLoaderBusy ==
  /\ runningLoader # 0
  /\ \E r \in 1..Len(fileReaders) :
       fileReaders[r].onload.loader = runningLoader
       /\ fileReaders[r].job = "loading"

\* C33: an abort() call aborts the stored readers that are LOADING and leaves
\* every other reader as it is; it aborts the stored loader if that is busy,
\* and touches no loader otherwise; the stored data, readers and loader stay,
\* the load count stays, and the load-end count grows only by the end events
\* of the readers and of the loader it aborted.
C33_AbortsLoadingOnly ==
  [][AbortStep =>
       /\ \A r \in 1..Len(fileReaders) :
            IF r \in StoredLoading
            THEN /\ fileReaders'[r].readyState = DONE
                 /\ fileReaders'[r].step = "ended"
            ELSE /\ fileReaders'[r].readyState = fileReaders[r].readyState
                 /\ fileReaders'[r].step = fileReaders[r].step
       /\ \A r \in 1..Len(fileReaders) :
            IF /\ StoredLoaderBusy
               /\ fileReaders[r].onload.loader = runningLoader
               /\ fileReaders[r].job = "loading"
            THEN fileReaders'[r].job = "dropped"
            ELSE fileReaders'[r].job = fileReaders[r].job
       /\ Len(fileReaders') = Len(fileReaders)
       /\ UNCHANGED <<inputData, readers, runningLoader, nLoad>>
       /\ nLoadend' >= nLoadend + Cardinality(StoredLoading)
       /\ nLoadend' <= nLoadend + Cardinality(StoredLoading)
                        + (IF StoredLoaderBusy THEN 1 ELSE 0)]_vars

\* C33 witness: abort() has been called while one stored reader was reading,
\* another was DONE with its end event pending, and the loader was busy; the
\* first reader and the loader are aborted, the end event of the second is
\* still pending.
C33_Witness ==
  /\ loaderCalls # << >>
  /\ LET c == loaderCalls[Len(loaderCalls)]
     IN /\ c.op = "abort"
        /\ c.aborted # {}
        /\ c.loaderAborted
        /\ \E r \in StoredReaders :
             /\ r \notin c.aborted
             /\ fileReaders[r].step = "ending"
             /\ fileReaders[r].job = "dropped"


\* ------------------------------------------------- FilesLoader without data
\* the step is a load() call given undefined or an empty list
NoDataStep ==
  /\ Len(loaderCalls') = Len(loaderCalls) + 1
  /\ LET c == loaderCalls'[Len(loaderCalls')]
     IN c.op = "load" /\ (c.given = "undefined" \/ c.data = << >>)

\* C35: a load() call given undefined or an empty list returns with no event
\* emitted and no reader created, and with the stored data, the counters, the
\* stored readers and the stored loader as they were, every reader and loader
\* at work being left to go on.
C35_NoDataIsNoOp ==
  [][NoDataStep =>
       /\ loaderCalls'[Len(loaderCalls')].result = "returned"
       /\ UNCHANGED <<loaderEvents, fileReaders, loaderLoads, inputData,
                      nLoad, nLoadend, readers, runningLoader>>]_vars

\* C35 witness: while a file is being loaded, its reader having ended, load()
\* has been called with undefined and then with an empty list; the batch is
\* still the current one, with its count of one end event.
C35_Witness ==
  /\ Len(loaderCalls) = 3
  /\ loaderCalls[2].op = "load" /\ loaderCalls[2].given = "undefined"
  /\ loaderCalls[3].op = "load" /\ loaderCalls[3].given = "list"
  /\ loaderCalls[3].data = << >>
  /\ loaderCalls[2].late /\ loaderCalls[3].late
  /\ inputData = 1 /\ nLoadend = 1 /\ readers = << 1 >> /\ runningLoader = 1
  /\ fileReaders[1].job = "loading"


\* ------------------------------------------------------ jpeg-lossless claims
\* C34: every item a synchronous jpeg-lossless decoder with its codec
\* delivers is an Int8Array for signed 8-bit meta, a Uint8Array for unsigned
\* 8-bit meta, an Int16Array for signed 16-bit meta and a Uint16Array for
\* unsigned 16-bit meta, over what the codec decoded from the call's buffer
\* with bitsAllocated / 8 bytes per element.
C34_LosslessArrayPerMeta ==
  (Synch /\ algoName = "jpeg-lossless" /\ hasJpegLosslessDecoder) =>
    \A c \in CallIds :
      (IsDecode(c) /\ HasEvent(c, "decodeditem")) =>
        LET meta == calls[c].frame
            data == DataOf(c)
        IN /\ (meta.bitsAllocated = 8 /\ meta.isSigned)
                => data.type = "Int8Array"
           /\ (meta.bitsAllocated = 8 /\ ~meta.isSigned)
                => data.type = "Uint8Array"
           /\ (meta.bitsAllocated = 16 /\ meta.isSigned)
                => data.type = "Int16Array"
           /\ (meta.bitsAllocated = 16 /\ ~meta.isSigned)
                => data.type = "Uint16Array"
           /\ data.pixels = << "jpeg-lossless", meta.buffer,
                               IF meta.bitsAllocated = 8 THEN 1 ELSE 2 >>

\* C34 witness: a jpeg-lossless decoder has delivered a signed 8-bit, a
\* signed 16-bit and an unsigned 16-bit frame, as an Int8Array, an Int16Array
\* and a Uint16Array.
C34_Witness ==
  /\ Synch /\ algoName = "jpeg-lossless" /\ hasJpegLosslessDecoder
  /\ \A t \in {"Int8Array", "Int16Array", "Uint16Array"} :
       \E c \in CallIds :
         IsDecode(c) /\ HasEvent(c, "decodeditem") /\ DataOf(c).type = t

====
